---- MODULE Spec2Model ----
(***************************************************************************)
(* Model of wallpaper-changer.py: the WallpaperList cursor (a Python list *)
(* subclass with a current_index), and the MainWindow handlers that drive *)
(* it from a single-shot QTimer, the tray menu and the D-Bus object.       *)
(*                                                                         *)
(* Two specifications share the variables:                                 *)
(*   SpecList  the WallpaperList methods called in any order by a caller   *)
(*             that catches what they raise;                               *)
(*   Spec      the application: MainWindow's handlers, the timer, and the  *)
(*             files under the wallpaper folder changing.                  *)
(***************************************************************************)
EXTENDS Integers, Sequences, FiniteSets, TLC

\* Bounds of the model.
NumFiles == 3        \* files a folder can hold, for the list on its own
AppFiles == 2        \* files a folder can hold, for the application
MaxInterval == 1     \* largest value of the interval field, in timer ticks

\* range(10) in WallpaperList.previous and WallpaperList.next
PreviousTries == 10
NextTries == 10

Files == 1..NumFiles
FolderFiles == 1..AppFiles
None == 0            \* Python's None, as a value no file has

VARIABLES
    wallpapers,      \* the WallpaperList's items (file paths), a sequence
    current_index,   \* WallpaperList.current_index
    validFiles,      \* the files imghdr.what recognises as images right now
    timerActive,     \* MainWindow.timer.isActive()
    timerRemaining,  \* ticks until the single-shot timer expires (0 when inactive)
    timerInterval,   \* MainWindow.timer.interval(), in ticks
    applied,         \* the path last handed to Wallpaper.set_active, or None
    tooltip,         \* the path shown in the tray icon's tooltip, or None
    running,         \* the process is alive
    last,            \* what the last operation was and what it returned
    before,          \* after previous(): the same for the next() right before it
    trail            \* the indices the latest run of consecutive next() calls visited

vars == <<wallpapers, current_index, validFiles, timerActive, timerRemaining,
          timerInterval, applied, tooltip, running, last, before, trail>>

(***************************************************************************)
(* Python list semantics                                                   *)
(***************************************************************************)

\* self[i] for -len <= i < len: a negative index counts from the end.
PyItem(w, i) ==
    IF i >= 0 THEN w[i + 1] ELSE w[Len(w) + i + 1]

\* Wallpaper.is_valid: imghdr.what(file_path) is not None
is_valid(f, valid) ==
    f \in valid

(***************************************************************************)
(* WallpaperList                                                           *)
(***************************************************************************)

\* get_current: None on an empty list; an index past the end is reset to 0;
\* returns self[current_index].  The result carries the (possibly reset) index.
get_current(w, idx) ==
    IF Len(w) = 0
    THEN [idx |-> idx, ret |-> None]
    ELSE LET i == IF idx > Len(w) - 1 THEN 0 ELSE idx
         IN  [idx |-> i, ret |-> PyItem(w, i)]

\* A faulty variant of step_next: wraps one entry early.
StepNextSkipLast(w, idx) ==
    IF idx >= Len(w) - 2 THEN 0 ELSE idx + 1

\* The index assignment at the top of next()'s loop body.
step_next(w, idx) ==
    IF idx >= Len(w) - 1 THEN 0 ELSE idx + 1

\* A faulty variant of step_previous: stays at 0 instead of wrapping.
StepPreviousWrapZero(w, idx) ==
    IF idx <= 0 THEN 0 ELSE idx - 1

\* The index assignment at the top of previous()'s loop body.
step_previous(w, idx) ==
    IF idx <= 0 THEN Len(w) - 1 ELSE idx - 1

\* next(): up to NextTries times step, then self.get_current().is_valid().
\* On an empty list get_current() is None and .is_valid() raises
\* AttributeError, after the index assignment has happened.
RECURSIVE next_loop(_, _, _, _)
next_loop(w, idx, valid, try_no) ==
    IF try_no >= NextTries
    THEN [idx |-> idx, ret |-> "False", tries |-> try_no]
    ELSE LET cur == get_current(w, step_next(w, idx))
         IN  IF cur.ret = None
             THEN [idx |-> cur.idx, ret |-> "raised", tries |-> try_no + 1]
             ELSE IF is_valid(cur.ret, valid)
                  THEN [idx |-> cur.idx, ret |-> "True", tries |-> try_no + 1]
                  ELSE next_loop(w, cur.idx, valid, try_no + 1)

\* A faulty variant of next(): one attempt, no retry.
NextSingleAttempt(w, idx, valid) ==
    next_loop(w, idx, valid, NextTries - 1)

WallpaperList_next(w, idx, valid) ==
    next_loop(w, idx, valid, 0)

\* previous(): the same loop, stepping backward.
RECURSIVE previous_loop(_, _, _, _)
previous_loop(w, idx, valid, try_no) ==
    IF try_no >= PreviousTries
    THEN [idx |-> idx, ret |-> "False", tries |-> try_no]
    ELSE LET cur == get_current(w, step_previous(w, idx))
         IN  IF cur.ret = None
             THEN [idx |-> cur.idx, ret |-> "raised", tries |-> try_no + 1]
             ELSE IF is_valid(cur.ret, valid)
                  THEN [idx |-> cur.idx, ret |-> "True", tries |-> try_no + 1]
                  ELSE previous_loop(w, cur.idx, valid, try_no + 1)

WallpaperList_previous(w, idx, valid) ==
    previous_loop(w, idx, valid, 0)

\* A faulty variant of clear(): the items stay.
ClearKeepsItems(w) ==
    w

\* list.clear()
clear(w) ==
    <<>>

\* The permutations of 1..n.
Perms(n) ==
    {p \in [1..n -> 1..n] : \A i, j \in 1..n : p[i] = p[j] => i = j}

\* os.walk(path): the files under the folder, as a list without repeats
\* (here in ascending order; the shuffle below makes the order irrelevant).
RECURSIVE walk(_)
walk(S) ==
    IF S = {} THEN <<>>
    ELSE LET m == CHOOSE x \in S : \A y \in S : x <= y
         IN  <<m>> \o walk(S \ {m})

\* add_from_path: append every file of the walk, then random.shuffle(self).
\* The set of lists the shuffle can leave.
Shuffles ==
    [n \in 0..(2 * NumFiles) |-> Perms(n)]

add_from_path(w, scan) ==
    LET a == w \o scan
    IN  {[i \in 1..Len(a) |-> a[p[i]]] : p \in Shuffles[Len(a)]}

(***************************************************************************)
(* MainWindow                                                              *)
(*                                                                         *)
(* A handler is a function of the state it runs in.  The record it works   *)
(* on holds the fields the handlers touch, and what the handler did:       *)
(*   nav     what the cursor step returned: "True", "False", "raised"      *)
(*           (the AttributeError left the handler), "none" (no step taken) *)
(*   tries   how many times the step's loop body ran (kept for the list    *)
(*           on its own only)                                              *)
(*   didSet  Wallpaper.set_active was called                               *)
(***************************************************************************)

Here ==
    [w |-> wallpapers, idx |-> current_index, active |-> timerActive,
     remaining |-> timerRemaining, interval |-> timerInterval,
     applied |-> applied, tooltip |-> tooltip,
     nav |-> "none", tries |-> 0, didSet |-> FALSE]

\* A faulty variant of update_wallpaper: the timer is not restarted.
UpdateWallpaperNoRestart(s) ==
    LET cur == get_current(s.w, s.idx)
    IN  IF cur.ret = None
        THEN [s EXCEPT !.idx = cur.idx]
        ELSE [s EXCEPT !.idx = cur.idx, !.tooltip = cur.ret,
                       !.applied = cur.ret, !.didSet = TRUE]

\* update_wallpaper: nothing on an empty list; else set the tooltip, call
\* set_active on the current wallpaper and (re)start the timer.
update_wallpaper(s) ==
    LET cur == get_current(s.w, s.idx)
    IN  IF cur.ret = None
        THEN [s EXCEPT !.idx = cur.idx]
        ELSE [s EXCEPT !.idx = cur.idx, !.tooltip = cur.ret,
                       !.applied = cur.ret, !.didSet = TRUE,
                       !.active = TRUE, !.remaining = s.interval]

\* A faulty variant of next_wallpaper: updates whatever next() returned.
NextWallpaperAlwaysUpdates(s, valid) ==
    LET r == WallpaperList_next(s.w, s.idx, valid)
        s1 == [s EXCEPT !.idx = r.idx, !.nav = r.ret, !.tries = r.tries]
    IN  IF r.ret = "raised" THEN s1 ELSE update_wallpaper(s1)

\* next_wallpaper: if self.wallpapers.next(): self.update_wallpaper()
next_wallpaper(s, valid) ==
    LET r == WallpaperList_next(s.w, s.idx, valid)
        s1 == [s EXCEPT !.idx = r.idx, !.nav = r.ret, !.tries = r.tries]
    IN  IF r.ret = "True" THEN update_wallpaper(s1) ELSE s1

\* previous_wallpaper: if self.wallpapers.previous(): self.update_wallpaper()
previous_wallpaper(s, valid) ==
    LET r == WallpaperList_previous(s.w, s.idx, valid)
        s1 == [s EXCEPT !.idx = r.idx, !.nav = r.ret, !.tries = r.tries]
    IN  IF r.ret = "True" THEN update_wallpaper(s1) ELSE s1

\* toggle_pause: stop an active timer, start an inactive one.
toggle_pause(s) ==
    IF s.active
    THEN [s EXCEPT !.active = FALSE, !.remaining = 0]
    ELSE [s EXCEPT !.active = TRUE, !.remaining = s.interval]

\* reload_wallpapers: return on an empty path; else clear, add_from_path
\* (shuffled is the list it left), next_wallpaper, then setInterval and
\* start.  What next_wallpaper raises skips the last two.
reload_wallpapers(s, path, shuffled, interval_value, valid) ==
    IF path = ""
    THEN s
    ELSE LET s1 == next_wallpaper([s EXCEPT !.w = shuffled], valid)
         IN  IF s1.nav = "raised"
             THEN s1
             ELSE [s1 EXCEPT !.interval = interval_value, !.active = TRUE,
                             !.remaining = interval_value]

(***************************************************************************)
(* The state after WallpaperList() and MainWindow's timer set-up, before   *)
(* load_settings has read a folder: an empty list, index 0, a single-shot  *)
(* timer that is not running and has QTimer's default interval of 0.       *)
(***************************************************************************)

NoOp ==
    [op |-> "init", ret |-> "none", cur |-> None, start |-> 0, tries |-> 0,
     wasActive |-> FALSE, didSet |-> FALSE, scan |-> <<>>]

Construct ==
    /\ wallpapers = <<>>
    /\ current_index = 0
    /\ timerActive = FALSE
    /\ timerRemaining = 0
    /\ timerInterval = 0
    /\ applied = None
    /\ tooltip = None
    /\ running = TRUE
    /\ last = NoOp
    /\ before = NoOp
    /\ trail = <<0>>

Init ==
    /\ Construct
    /\ validFiles \in SUBSET FolderFiles

\* The state a handler leaves.  What a handler run by Qt raises either ends
\* the process (PyQt5 >= 5.5 calls qFatal) or is printed and dropped (older
\* PyQt5); what a D-Bus method raises is sent back as an error reply.
Commit(s, op, caught) ==
    /\ wallpapers' = s.w
    /\ current_index' = s.idx
    /\ timerActive' = s.active
    /\ timerRemaining' = s.remaining
    /\ timerInterval' = s.interval
    /\ applied' = s.applied
    /\ tooltip' = s.tooltip
    /\ running' \in (IF s.nav = "raised" /\ ~caught THEN BOOLEAN ELSE {TRUE})
    /\ last' = [NoOp EXCEPT !.op = op, !.ret = s.nav,
                            !.wasActive = timerActive, !.didSet = s.didSet]
    /\ UNCHANGED <<validFiles, before, trail>>

\* timer.timeout -> next_wallpaper; a single-shot timer is inactive when
\* its slot runs.
TimerExpiry ==
    /\ running
    /\ timerActive
    /\ timerRemaining = 0
    /\ Commit(next_wallpaper([Here EXCEPT !.active = FALSE], validFiles),
              "timer", FALSE)

\* Time passing on the running timer.
Tick ==
    /\ running
    /\ timerActive
    /\ timerRemaining > 0
    /\ timerRemaining' = timerRemaining - 1
    /\ last' = [NoOp EXCEPT !.op = "tick"]
    /\ UNCHANGED <<wallpapers, current_index, validFiles, timerActive,
                   timerInterval, applied, tooltip, running, before, trail>>

\* Tray menu: "Next wallpaper", "Previous wallpaper", pause/continue.
MenuNext ==
    /\ running
    /\ Commit(next_wallpaper(Here, validFiles), "menu_next", FALSE)

MenuPrevious ==
    /\ running
    /\ Commit(previous_wallpaper(Here, validFiles), "menu_previous", FALSE)

MenuTogglePause ==
    /\ running
    /\ Commit(toggle_pause(Here), "menu_toggle", FALSE)

\* DBusHandler's methods call the same MainWindow methods.
DBusNext ==
    /\ running
    /\ Commit(next_wallpaper(Here, validFiles), "dbus_next", TRUE)

DBusPrevious ==
    /\ running
    /\ Commit(previous_wallpaper(Here, validFiles), "dbus_previous", TRUE)

DBusTogglePause ==
    /\ running
    /\ Commit(toggle_pause(Here), "dbus_toggle", TRUE)

\* Tray menu: "Open current wallpaper".  Only get_current touches the state.
OpenWallpaper ==
    /\ running
    /\ LET cur == get_current(wallpapers, current_index)
       IN  /\ current_index' = cur.idx
           /\ last' = [NoOp EXCEPT !.op = "open", !.cur = cur.ret]
    /\ UNCHANGED <<wallpapers, validFiles, timerActive, timerRemaining,
                   timerInterval, applied, tooltip, running, before, trail>>

\* load_settings -> reload_wallpapers, at start-up and on every closeEvent,
\* with the folder and the interval the settings hold (whatever save() and
\* the settings form last wrote: any folder, any interval).
ReloadWallpapers ==
    /\ running
    /\ \/ \E v \in 1..MaxInterval :
            Commit(reload_wallpapers(Here, "", wallpapers, v, validFiles),
                   "reload", FALSE)
       \/ \E S \in SUBSET FolderFiles, v \in 1..MaxInterval :
            \E shuffled \in add_from_path(clear(wallpapers), walk(S)) :
               Commit(reload_wallpapers(Here, "folder", shuffled, v, validFiles),
                      "reload", FALSE)

\* A file under the folder is replaced: an image by a non-image or the
\* other way round.
FilesChange ==
    /\ running
    /\ \E f \in FolderFiles :
         validFiles' = (validFiles \ {f}) \cup ({f} \ validFiles)
    /\ last' = [NoOp EXCEPT !.op = "files"]
    /\ UNCHANGED <<wallpapers, current_index, timerActive, timerRemaining,
                   timerInterval, applied, tooltip, running, before, trail>>

Next ==
    \/ TimerExpiry
    \/ Tick
    \/ MenuNext
    \/ MenuPrevious
    \/ MenuTogglePause
    \/ DBusNext
    \/ DBusPrevious
    \/ DBusTogglePause
    \/ OpenWallpaper
    \/ ReloadWallpapers
    \/ FilesChange

Spec == Init /\ [][Next]_vars

(***************************************************************************)
(* The WallpaperList methods on their own, called in any order.            *)
(***************************************************************************)

\* The latest indices of a run of next() calls: enough of them to hold a
\* full cycle of the longest list.
Window(t) ==
    IF Len(t) > NumFiles + 1 THEN Tail(t) ELSE t

\* What `before` keeps of the operation before a previous(): a next()
\* whole, any other operation not at all.
Kept(l) ==
    IF l.op = "next" THEN l ELSE NoOp

\* clear() then add_from_path(path), as reload_wallpapers does.
ListLoad ==
    /\ \E S \in SUBSET Files :
         /\ wallpapers' \in add_from_path(clear(wallpapers), walk(S))
         /\ last' = [NoOp EXCEPT !.op = "load", !.start = current_index,
                                 !.scan = walk(S)]
    /\ before' = NoOp
    /\ trail' = <<current_index>>
    /\ UNCHANGED <<current_index, validFiles, timerActive, timerRemaining,
                   timerInterval, applied, tooltip, running>>

ListNext ==
    /\ LET r == WallpaperList_next(wallpapers, current_index, validFiles)
       IN  /\ current_index' = r.idx
           /\ last' = [NoOp EXCEPT !.op = "next", !.ret = r.ret,
                                   !.start = current_index, !.tries = r.tries]
           /\ before' = NoOp
           /\ trail' = Window(Append(trail, r.idx))
    /\ UNCHANGED <<wallpapers, validFiles, timerActive, timerRemaining,
                   timerInterval, applied, tooltip, running>>

ListPrevious ==
    /\ LET r == WallpaperList_previous(wallpapers, current_index, validFiles)
       IN  /\ current_index' = r.idx
           /\ last' = [NoOp EXCEPT !.op = "previous", !.ret = r.ret,
                                   !.start = current_index, !.tries = r.tries]
           /\ before' = Kept(last)
           /\ trail' = <<r.idx>>
    /\ UNCHANGED <<wallpapers, validFiles, timerActive, timerRemaining,
                   timerInterval, applied, tooltip, running>>

ListGetCurrent ==
    /\ LET cur == get_current(wallpapers, current_index)
       IN  /\ current_index' = cur.idx
           /\ last' = [NoOp EXCEPT !.op = "current", !.cur = cur.ret,
                                   !.start = current_index]
           /\ before' = NoOp
           /\ trail' = <<cur.idx>>
    /\ UNCHANGED <<wallpapers, validFiles, timerActive, timerRemaining,
                   timerInterval, applied, tooltip, running>>

ListFilesChange ==
    /\ \E f \in Files :
         validFiles' = (validFiles \ {f}) \cup ({f} \ validFiles)
    /\ last' = [NoOp EXCEPT !.op = "files"]
    /\ before' = NoOp
    /\ trail' = <<current_index>>
    /\ UNCHANGED <<wallpapers, current_index, timerActive, timerRemaining,
                   timerInterval, applied, tooltip, running>>

InitList ==
    /\ Construct
    /\ validFiles \in SUBSET Files

NextList ==
    \/ ListLoad
    \/ ListNext
    \/ ListPrevious
    \/ ListGetCurrent
    \/ ListFilesChange

SpecList == InitList /\ [][NextList]_vars

(***************************************************************************)
(* Properties                                                              *)
(***************************************************************************)

InRange(i) ==
    0 <= i /\ i <= Len(wallpapers) - 1

SomeValid ==
    \E k \in 1..Len(wallpapers) : wallpapers[k] \in validFiles

AllValid ==
    \A k \in 1..Len(wallpapers) : wallpapers[k] \in validFiles

Count(s, e) ==
    Cardinality({k \in 1..Len(s) : s[k] = e})

IsPermutation(s, u) ==
    /\ Len(s) = Len(u)
    /\ \A k \in 1..Len(u) : Count(s, u[k]) = Count(u, u[k])

ListSteps == {"next", "previous"}

TimerHandler == {"timer"}

Handlers == {"timer", "menu_next", "menu_previous", "dbus_next", "dbus_previous"}

Toggles == {"menu_toggle", "dbus_toggle"}

\* k wraparound steps forward / backward from index i.
RECURSIVE Forward(_, _)
Forward(i, k) ==
    IF k = 0 THEN i ELSE Forward(step_next(wallpapers, i), k - 1)

RECURSIVE Backward(_, _)
Backward(i, k) ==
    IF k = 0 THEN i ELSE Backward(step_previous(wallpapers, i), k - 1)

\* C1: on an empty list next() and previous() return False without raising,
\* and get_current() returns None.
C1_EmptyListReportsFailure ==
    Len(wallpapers) = 0 =>
        /\ last.op \in ListSteps => last.ret = "False"
        /\ last.op = "current" => last.cur = None

\* C2: when the timer's next_wallpaper finds no valid entry within the
\* retry bound, the timer is active again once the handler has returned.
C2_TimerRearmedAfterFailedStep ==
    (last.op \in TimerHandler /\ last.ret = "False") => timerActive

\* C3: on a non-empty list, once get_current() has returned,
\* 0 <= current_index < len and the entry returned is the one at
\* current_index.
C3_IndexInRangeAfterRead ==
    (last.op = "current" /\ Len(wallpapers) > 0) =>
        /\ InRange(current_index)
        /\ last.cur = wallpapers[current_index + 1]

\* C4: on a list of 1 to 10 entries of which at least one is valid, from
\* any in-range index, next() and previous() return True and leave
\* current_index on a valid entry.
C4_StepLandsOnValidEntry ==
    (/\ last.op \in ListSteps
     /\ Len(wallpapers) >= 1
     /\ Len(wallpapers) <= 10
     /\ SomeValid
     /\ InRange(last.start)) =>
        /\ last.ret = "True"
        /\ InRange(current_index)
        /\ wallpapers[current_index + 1] \in validFiles

\* C4's case: a next() that stepped over an invalid entry and then succeeded.
C4_Witness ==
    /\ last.op = "next"
    /\ Len(wallpapers) >= 2
    /\ InRange(last.start)
    /\ last.tries >= 2
    /\ last.ret = "True"

\* C5: on a list of fewer than 11 entries none of which is valid, next()
\* and previous() make exactly 10 attempts and return False, with
\* current_index 10 wraparound steps forward (backward) from where it was.
C5_TenAttemptsThenFailure ==
    (/\ last.op \in ListSteps
     /\ Len(wallpapers) < 11
     /\ ~SomeValid) =>
        /\ last.ret = "False"
        /\ last.tries = 10
        /\ last.op = "next" => current_index = Forward(last.start, 10)
        /\ last.op = "previous" => current_index = Backward(last.start, 10)

\* C6: a next() that succeeds on its first attempt from an in-range index i,
\* followed by a previous() that succeeds on its first attempt, leaves
\* current_index = i.
C6_NextThenPreviousRoundTrip ==
    (/\ last.op = "previous"
     /\ last.ret = "True"
     /\ last.tries = 1
     /\ before.op = "next"
     /\ before.ret = "True"
     /\ before.tries = 1
     /\ Len(wallpapers) > 0
     /\ InRange(before.start)) =>
        current_index = before.start

\* C6's case: the round trip across the end of a list of two or more.
C6_Witness ==
    /\ last.op = "previous"
    /\ last.ret = "True"
    /\ last.tries = 1
    /\ before.op = "next"
    /\ before.ret = "True"
    /\ before.tries = 1
    /\ Len(wallpapers) >= 2
    /\ before.start = Len(wallpapers) - 1
    /\ current_index = before.start

\* C7: on a non-empty list of n entries, all valid, n consecutive next()
\* calls from an in-range index i all return True, visit every index
\* exactly once and leave current_index = i.
C7_FullCycle ==
    LET n == Len(wallpapers)
        m == Len(trail)
    IN  (n > 0 /\ AllValid /\ last.op = "next") =>
            /\ InRange(last.start) => (last.ret = "True" /\ last.tries = 1)
            /\ (m >= n + 1 /\ InRange(trail[m - n])) =>
                   /\ current_index = trail[m]
                   /\ trail[m] = trail[m - n]
                   /\ {trail[k] : k \in (m - n + 1)..m} = 0..(n - 1)

\* C7's case: a full cycle through a list of more than one entry.
C7_Witness ==
    /\ Len(wallpapers) >= 2
    /\ AllValid
    /\ last.op = "next"
    /\ Len(trail) >= Len(wallpapers) + 1
    /\ InRange(trail[Len(trail) - Len(wallpapers)])
    /\ current_index = trail[Len(trail) - Len(wallpapers)]

\* C8: when a next_wallpaper or previous_wallpaper whose step returned True
\* returns (run by the timer, the menu or D-Bus, the timer paused before or
\* not), the timer is active with its full interval; toggle_pause leaves an
\* active timer inactive and an inactive one active with its full interval.
C8_TimerAfterStepAndToggle ==
    /\ (last.op \in Handlers /\ last.ret = "True") =>
           (timerActive /\ timerRemaining = timerInterval)
    /\ (last.op \in Toggles /\ last.wasActive) => ~timerActive
    /\ (last.op \in Toggles /\ ~last.wasActive) =>
           (timerActive /\ timerRemaining = timerInterval)

\* C8's case: a successful step taken while the timer was paused.
C8_Witness ==
    /\ last.op \in Handlers
    /\ last.ret = "True"
    /\ ~last.wasActive
    /\ timerInterval > 0
    /\ timerActive
    /\ timerRemaining = timerInterval

\* C9: after clear() and add_from_path() the list is a permutation of the
\* scanned paths (so nothing of the list before is left unless the scan
\* holds it), and current_index is what it was.
C9_LoadIsPermutationOfScan ==
    last.op = "load" =>
        /\ IsPermutation(wallpapers, last.scan)
        /\ current_index = last.start

\* C9's case: a load that shuffled two or more paths out of scan order and
\* left an index set by earlier steps.
C9_Witness ==
    /\ last.op = "load"
    /\ Len(wallpapers) >= 2
    /\ wallpapers # last.scan
    /\ current_index >= 1

\* C10: set_active is called only in a handler whose step returned True,
\* with the entry at current_index, which is valid; a handler whose step
\* did not return True leaves the applied wallpaper and the tooltip alone.
C10_SetActiveOnlyAfterSuccessfulStep ==
    [][/\ last'.didSet =>
             /\ last'.op \in Handlers \cup {"reload"}
             /\ last'.ret = "True"
             /\ 0 <= current_index'
             /\ current_index' <= Len(wallpapers') - 1
             /\ applied' = wallpapers'[current_index' + 1]
             /\ applied' \in validFiles'
             /\ tooltip' = applied'
       /\ (last'.op \in Handlers \cup {"reload"} /\ last'.ret # "True") =>
             /\ ~last'.didSet
             /\ applied' = applied
             /\ tooltip' = tooltip]_vars

\* C10's case: the timer's handler applied the entry its step landed on.
C10_Witness ==
    /\ last.op = "timer"
    /\ last.ret = "True"
    /\ last.didSet
    /\ Len(wallpapers) >= 2
    /\ applied = PyItem(wallpapers, current_index)

====
